---- MODULE Spec2Model ----
(***************************************************************************)
(* dry-go: the generic gorm repository (package gormdb: crud[T], Query,    *)
(* QueryOpt) and the set helpers of package utils, as state machines.      *)
(*                                                                         *)
(* A record of type T is [id |-> primary key, val |-> one column].  The    *)
(* backing store is gorm's *gorm.DB: `store` is the committed table, a     *)
(* function from the primary keys present to the column value.             *)
(***************************************************************************)
EXTENDS Integers, Sequences, FiniteSets, TLC

\* ------------------------------------------------------------------ bounds
MaxId == 2        \* primary keys 1..MaxId of the single caller's table
MaxSharedId == 1  \* primary keys 1..MaxSharedId of the table concurrent callers share
MaxVal == 1       \* column values 0..MaxVal
MaxRows == 5      \* rows 1..n, n <= MaxRows, in the query specification
MaxPage == 3      \* Pagination's pageNumber argument ranges over 0..MaxPage
MaxSize == 2      \* Pagination's pageSize argument ranges over 0..MaxSize
MaxLen == 3       \* length of the slices handed to the utils helpers
MaxElem == 3      \* slice elements 1..MaxElem

\* ------------------------------------------------------- program constants
DefaultPageNumber == 1
DefaultPageSize == 50

Nil == "nil"                              \* the nil error
ErrRecordNotFound == "ErrRecordNotFound"  \* gorm.ErrRecordNotFound
ErrStore == "ErrStore"                    \* any other failure of the store
ErrConflict == "ErrConflict"              \* the store's serialization failure

Vals == 0..MaxVal
Records(ids) == [id : ids, val : Vals]
ZeroRecord == [id |-> 0, val |-> 0]       \* new(T)

Min(a, b) == IF a < b THEN a ELSE b

\* ------------------------------------------------------------------ Query
\* Query{q, not}: both maps are functions from column names to values; Q(q)
\* leaves `not` nil, which is the empty map here.
EmptyMap == [k \in {} |-> 0]
Q(q) == [q |-> q, not |-> EmptyMap]
Not(query, not) == [query EXCEPT !.not = not]

\* Where(query.q).Not(query.not): every column of q equal, every column of
\* not different (gorm joins the negated equalities of a map with AND).
Matches(rec, query) ==
    /\ \A k \in DOMAIN query.q : rec[k] = query.q[k]
    /\ \A k \in DOMAIN query.not : rec[k] # query.not[k]

Rows(st) == {[id |-> i, val |-> st[i]] : i \in DOMAIN st}
MatchSet(st, query) == {r \in Rows(st) : Matches(r, query)}

\* ------------------------------------------------------------- ordering
\* One ORDER BY clause compares two rows: -1 before, 1 after, 0 tie.
Cmp(x, y) == IF x < y THEN -1 ELSE IF x > y THEN 1 ELSE 0
ClauseCmp(a, b, clause) ==
    CASE clause = "id asc" -> Cmp(a.id, b.id)
      [] clause = "id desc" -> Cmp(b.id, a.id)
      [] clause = "val asc" -> Cmp(a.val, b.val)
      [] clause = "val desc" -> Cmp(b.val, a.val)

\* db.Order(c1).Order(c2)...: lexicographic over the clauses; rows the
\* clauses do not separate come in primary-key order.
RECURSIVE Before(_, _, _)
Before(a, b, clauses) ==
    IF clauses = <<>> THEN a.id < b.id
    ELSE LET c == ClauseCmp(a, b, Head(clauses))
         IN IF c = 0 THEN Before(a, b, Tail(clauses)) ELSE c = -1

RECURSIVE SortRows(_, _)
SortRows(S, clauses) ==
    IF S = {} THEN <<>>
    ELSE LET m == CHOOSE a \in S : \A b \in S \ {a} : Before(a, b, clauses)
         IN <<m>> \o SortRows(S \ {m}, clauses)

\* ----------------------------------------------------------- QueryOpt
NoFn == "none"
\* The caller's error-mapping functions: one swallows the error, one turns
\* it into a domain error.
OmitFns == {"toNil", "toDomainErr"}
CallOmitFn(fn, err) ==
    CASE fn = "toNil" -> Nil
      [] fn = "toDomainErr" ->
            CASE err = ErrRecordNotFound -> "DomainErr(ErrRecordNotFound)"
              [] err = ErrStore -> "DomainErr(ErrStore)"
              [] OTHER -> "DomainErr"

NewQueryOpt ==
    [OmitNotFoundErrFn |-> NoFn, OrderBy |-> <<>>, Preloads |-> <<>>,
     TotalCount |-> 0, PageNumber |-> DefaultPageNumber,
     PageSize |-> DefaultPageSize, OmitNotFoundErr |-> FALSE,
     Paginate |-> FALSE]

\* The option constructors return closures; a closure is the record of the
\* arguments it captured, and ApplyOpt runs it on a configuration.
OmitNotFoundErr(errFn) == [kind |-> "OmitNotFoundErr", fn |-> errFn]
Pagination(pageNumber, pageSize) ==
    [kind |-> "Pagination", pageNumber |-> pageNumber, pageSize |-> pageSize]
OrderBy(orderBy) == [kind |-> "OrderBy", orderBy |-> orderBy]
Preload(preloads) == [kind |-> "Preload", preloads |-> preloads]

ApplyOmitNotFoundErr(c, opt) ==
    [c EXCEPT !.OmitNotFoundErr = TRUE, !.OmitNotFoundErrFn = opt.fn]
\* Pagination without its guards.
ApplyPagination_Unguarded(c, opt) ==
    [c EXCEPT !.Paginate = TRUE, !.PageNumber = opt.pageNumber,
              !.PageSize = opt.pageSize]
ApplyPagination(c, opt) ==
    [c EXCEPT !.Paginate = TRUE,
              !.PageNumber = IF opt.pageNumber > 0 THEN opt.pageNumber ELSE @,
              !.PageSize = IF opt.pageSize > 0 THEN opt.pageSize ELSE @]
\* OrderBy that appends to the clauses an earlier option set.
ApplyOrderBy_Append(c, opt) == [c EXCEPT !.OrderBy = @ \o opt.orderBy]
ApplyOrderBy(c, opt) == [c EXCEPT !.OrderBy = opt.orderBy]
ApplyPreload(c, opt) == [c EXCEPT !.Preloads = opt.preloads]

ApplyOpt(c, opt) ==
    CASE opt.kind = "OmitNotFoundErr" -> ApplyOmitNotFoundErr(c, opt)
      [] opt.kind = "Pagination" -> ApplyPagination(c, opt)
      [] opt.kind = "OrderBy" -> ApplyOrderBy(c, opt)
      [] opt.kind = "Preload" -> ApplyPreload(c, opt)

RECURSIVE FoldOpts(_, _)
FoldOpts(c, opts) ==
    IF opts = <<>> THEN c ELSE FoldOpts(ApplyOpt(c, Head(opts)), Tail(opts))

BuildOpt(opts) == FoldOpts(NewQueryOpt, opts)

\* ------------------------------------------------------ the gorm store
\* The statements of *gorm.DB the repository issues.  dbErr is what the
\* store answers for the statement: Nil, or ErrStore when it fails.
DbErrs == {Nil, ErrStore}

\* A transaction's view: the committed table overlaid with its own writes.
View(st, w) ==
    [i \in DOMAIN st \cup DOMAIN w |-> IF i \in DOMAIN w THEN w[i] ELSE st[i]]

\* db.First(dest): the first match in primary-key order, or
\* gorm.ErrRecordNotFound; dest keeps new(T) on failure.
First(st, query, dbErr) ==
    LET ms == MatchSet(st, query)
    IN IF dbErr # Nil THEN [rec |-> ZeroRecord, err |-> dbErr]
       ELSE IF ms = {} THEN [rec |-> ZeroRecord, err |-> ErrRecordNotFound]
       ELSE [rec |-> Head(SortRows(ms, <<>>)), err |-> Nil]

\* db.Count(&n)
Count(st, query) == Cardinality(MatchSet(st, query))

\* db.Order(...).Offset(offset).Limit(limit).Find(&results); limit < 0
\* stands for no LIMIT clause.
Find(st, query, clauses, offset, limit) ==
    LET rows == SortRows(MatchSet(st, query), clauses)
        last == IF limit < 0 THEN Len(rows) ELSE Min(offset + limit, Len(rows))
    IN SubSeq(rows, offset + 1, last)

\* db.Create(entity): a duplicate primary key is a constraint violation.
DbCreate(st, rec) == [i \in DOMAIN st \cup {rec.id} |-> IF i = rec.id THEN rec.val ELSE st[i]]
\* db.Model(new(T)).Where(..).Not(..).Updates(uParam), uParam = {val: v}
DbUpdates(st, query, v) ==
    [i \in DOMAIN st |-> IF Matches([id |-> i, val |-> st[i]], query) THEN v ELSE st[i]]
\* db.Where(..).Not(..).Delete(&t)
DbDelete(st, query) ==
    [i \in {j \in DOMAIN st : ~Matches([id |-> j, val |-> st[j]], query)} |-> st[i]]

\* --------------------------------------------------- the repository state
Procs == {"p1", "p2"}    \* the callers of one crud[T]

VARIABLES
    keys,       \* the primary keys the callers use
    store,      \* the committed table: primary key -> val
    isolation,  \* what the opened driver guarantees to concurrent transactions
    pc,         \* pc[p]: where caller p is in its call
    call,       \* call[p]: the operation and its arguments
    entity,     \* entity[p]: updatedEntity, the in-memory copy UpdateByFn fetched
    txw,        \* txw[p]: the uncommitted writes of p's open transaction
    conflict,   \* conflict[p]: another caller committed a change to the row p fetched
    fnret,      \* fnret[p]: what updateFn / fn returned
    hist,       \* hist[p]: the stages p's call went through
    out,        \* out[p]: what the call returned
    snap,       \* the table when the single caller's call began
    uin,        \* the arguments of the utils helper under test
    uout        \* its results

vars == <<keys, store, isolation, pc, call, entity, txw, conflict, fnret, hist, out, snap, uin, uout>>

\* NewDB opens mysql, postgres or sqlite with the driver's default isolation:
\* under mysql and postgres a transaction's write goes through although the
\* row changed after the transaction read it; sqlite refuses it.
Isolations == {"ReadCommitted", "Serializable"}

NoCall == [op |-> "none", query |-> Q(EmptyMap)]
NoFnRet == [called |-> FALSE, updated |-> FALSE, err |-> Nil, mutated |-> FALSE]
NoOut == [err |-> Nil]

AllStores(ids) == UNION {[S -> Vals] : S \in SUBSET ids}

\* The queries the callers of the transactional specifications pass.
TxQueries ==
    {Q(EmptyMap)} \cup {Q([id |-> i]) : i \in keys} \cup {Q([val |-> v]) : v \in Vals}
        \cup {Not(Q(EmptyMap), [id |-> i]) : i \in keys}

\* The errors a caller's closure (updateFn, fn) returns.
FnErrs == {"ErrBizA", "ErrBizB"}

IdleProcs ==
    /\ pc = [p \in Procs |-> "idle"]
    /\ call = [p \in Procs |-> NoCall]
    /\ entity = [p \in Procs |-> ZeroRecord]
    /\ txw = [p \in Procs |-> EmptyMap]
    /\ conflict = [p \in Procs |-> FALSE]
    /\ fnret = [p \in Procs |-> NoFnRet]
    /\ hist = [p \in Procs |-> <<>>]
    /\ out = [p \in Procs |-> NoOut]

NoUtils == uin = [fn |-> "none"] /\ uout = <<>>

\* The rows q's open transaction has fetched and not yet saved.
FetchedRows(q) ==
    IF pc[q] \in {"ubf_compute", "ubf_save"} THEN {entity[q].id} ELSE {}

\* The rows whose content differs between two tables.
Changed(st, after) ==
    {i \in DOMAIN st \cup DOMAIN after :
        i \notin DOMAIN st \/ i \notin DOMAIN after \/ st[i] # after[i]}

\* p commits a write that takes the table to `after`: every other open
\* transaction that fetched a row it changes has now read a value that is
\* no longer current.
MarkConflicts(p, after) ==
    [q \in Procs |->
        IF q # p /\ FetchedRows(q) \cap Changed(store, after) # {}
        THEN TRUE ELSE conflict[q]]

\* The store's row locks: a transaction's uncommitted write holds its row
\* until the transaction ends, and a statement of another caller that
\* writes the row waits for it.
Unlocked(p, ids) == \A q \in Procs \ {p} : DOMAIN txw[q] \cap ids = {}

MatchIds(st, query) == {r.id : r \in MatchSet(st, query)}

\* ------------------------------------------------- crud[T]: the methods
\* Each method as a function of the table it runs on: [st |-> the table
\* after the statement, err |-> the error returned, ids |-> rows written].

\* crud.Create(ctx, entity)
Create(st, rec, dbErr) ==
    IF dbErr # Nil THEN [st |-> st, err |-> dbErr, ids |-> {}]
    ELSE IF rec.id \in DOMAIN st THEN [st |-> st, err |-> ErrStore, ids |-> {}]
    ELSE [st |-> DbCreate(st, rec), err |-> Nil, ids |-> {rec.id}]

\* crud.Update(ctx, query, uParam)
Update(st, query, v, dbErr) ==
    IF dbErr # Nil THEN [st |-> st, err |-> dbErr, ids |-> {}]
    ELSE [st |-> DbUpdates(st, query, v), err |-> Nil, ids |-> MatchIds(st, query)]

\* crud.Delete(ctx, query, opts...)
Delete(st, query, opts, dbErr) ==
    LET o == BuildOpt(opts)
        after == IF dbErr # Nil THEN st ELSE DbDelete(st, query)
        ids == IF dbErr # Nil THEN {} ELSE MatchIds(st, query)
    IN IF dbErr # Nil /\ o.OmitNotFoundErr
       THEN [st |-> after, err |-> CallOmitFn(o.OmitNotFoundErrFn, dbErr), ids |-> ids]
       ELSE [st |-> after, err |-> Nil, ids |-> ids]

\* crud.Get(ctx, query, opts...): result is <<>> for the nil pointer.
Get(st, query, opts, dbErr) ==
    LET o == BuildOpt(opts)
        r == First(st, query, dbErr)
    IN IF r.err # Nil /\ o.OmitNotFoundErr
       THEN [result |-> <<>>, err |-> CallOmitFn(o.OmitNotFoundErrFn, r.err)]
       ELSE [result |-> <<r.rec>>, err |-> Nil]

\* List with the page number taken as zero-based: offset = page * size.
List_ZeroBasedPage(st, query, opts, countErr, findErr) ==
    LET o == BuildOpt(opts)
        TotalCount == IF o.Paginate THEN Count(st, query) ELSE o.TotalCount
        offset == o.PageNumber * o.PageSize
        results == IF o.Paginate
                   THEN Find(st, query, o.OrderBy, offset, o.PageSize)
                   ELSE Find(st, query, o.OrderBy, 0, -1)
        pageCount == (TotalCount \div o.PageSize)
                        + (IF TotalCount % o.PageSize > 0 THEN 1 ELSE 0)
    IN IF o.Paginate /\ countErr # Nil THEN [res |-> <<>>, err |-> countErr]
       ELSE IF findErr # Nil THEN [res |-> <<>>, err |-> findErr]
       ELSE [res |-> <<[Items |-> results, Total |-> TotalCount,
                        PageSize |-> o.PageSize, PageCount |-> pageCount,
                        Page |-> o.PageNumber]>>,
             err |-> Nil]

\* crud.List(ctx, query, opts...): res is <<>> for the nil pointer.
List(st, query, opts, countErr, findErr) ==
    LET o == BuildOpt(opts)
        TotalCount == IF o.Paginate THEN Count(st, query) ELSE o.TotalCount
        offset == (o.PageNumber - 1) * o.PageSize
        results == IF o.Paginate
                   THEN Find(st, query, o.OrderBy, offset, o.PageSize)
                   ELSE Find(st, query, o.OrderBy, 0, -1)
        pageCount == (TotalCount \div o.PageSize)
                        + (IF TotalCount % o.PageSize > 0 THEN 1 ELSE 0)
    IN IF o.Paginate /\ countErr # Nil THEN [res |-> <<>>, err |-> countErr]
       ELSE IF findErr # Nil THEN [res |-> <<>>, err |-> findErr]
       ELSE [res |-> <<[Items |-> results, Total |-> TotalCount,
                        PageSize |-> o.PageSize, PageCount |-> pageCount,
                        Page |-> o.PageNumber]>>,
             err |-> Nil]

\* ------------------------------------------------ crud[T]: the callers
MaxCalls == 2    \* repository calls one fn makes inside Transaction

OmitOpts == {<<>>} \cup {<<OmitNotFoundErr(f)>> : f \in OmitFns}

\* A method that is one statement on r.DB: it commits at once.  c keeps
\* the operation, its options and the store's answer dbErr.
Returns(p, c, r) ==
    /\ pc[p] = "idle"
    /\ Unlocked(p, r.ids)
    /\ store' = r.st
    /\ conflict' = MarkConflicts(p, r.st)
    /\ pc' = [pc EXCEPT ![p] = "done"]
    /\ call' = [call EXCEPT ![p] = c]
    /\ out' = [out EXCEPT ![p] = [err |-> r.err]]
    /\ UNCHANGED <<keys, isolation, entity, txw, fnret, hist>>

CallCreate(p) ==
    \E rec \in Records(keys), dbErr \in DbErrs :
        Returns(p, [op |-> "Create", opts |-> <<>>, dbErr |-> dbErr],
                Create(store, rec, dbErr))

CallUpdate(p) ==
    \E query \in TxQueries, v \in Vals, dbErr \in DbErrs :
        Returns(p, [op |-> "Update", opts |-> <<>>, dbErr |-> dbErr],
                Update(store, query, v, dbErr))

CallDelete(p) ==
    \E query \in TxQueries, opts \in OmitOpts, dbErr \in DbErrs :
        Returns(p, [op |-> "Delete", opts |-> opts, dbErr |-> dbErr],
                Delete(store, query, opts, dbErr))

\* The end of db.Transaction(fc): fc returned out[p].err.  An error rolls
\* back and is returned as it is; nil commits.
EndTransaction(p) ==
    LET rollback == out[p].err # Nil
    IN /\ store' = IF rollback THEN store ELSE View(store, txw[p])
       /\ conflict' = IF rollback THEN conflict ELSE MarkConflicts(p, View(store, txw[p]))
       /\ hist' = [hist EXCEPT ![p] = Append(@,
                        IF rollback THEN "Rollback"
                        ELSE IF txw[p] = EmptyMap THEN "CommitNoWrite"
                        ELSE "CommitWrite")]
       /\ txw' = [txw EXCEPT ![p] = EmptyMap]
       /\ pc' = [pc EXCEPT ![p] = "done"]
       /\ UNCHANGED <<keys, isolation, call, entity, fnret, out>>

\* crud.UpdateByFn: r.DB.Transaction(func(tx) error {...})
UpdateByFn_Begin(p) ==
    /\ pc[p] = "idle"
    /\ \E query \in TxQueries :
          call' = [call EXCEPT ![p] = [op |-> "UpdateByFn", query |-> query]]
    /\ pc' = [pc EXCEPT ![p] = "ubf_fetch"]
    /\ hist' = [hist EXCEPT ![p] = <<"Begin">>]
    /\ UNCHANGED <<keys, store, isolation, entity, txw, conflict, fnret, out>>

\* UpdateByFn_Fetch with the error of First not returned: updateFn is
\* invoked on the zero-valued copy.
UpdateByFn_Fetch_IgnoreErr(p) ==
    /\ pc[p] = "ubf_fetch"
    /\ \E dbErr \in DbErrs :
          LET r == First(View(store, txw[p]), call[p].query, dbErr)
          IN /\ entity' = [entity EXCEPT ![p] = r.rec]
             /\ out' = [out EXCEPT ![p] = [err |-> r.err]]
             /\ pc' = [pc EXCEPT ![p] = "ubf_compute"]
    /\ call' = [call EXCEPT ![p].query = Q(EmptyMap)]
    /\ conflict' = [conflict EXCEPT ![p] = FALSE]
    /\ hist' = [hist EXCEPT ![p] = Append(@, "Fetch")]
    /\ UNCHANGED <<keys, store, isolation, txw, fnret>>

\* tx.WithContext(ctx).Where(query.q).Not(query.not).First(updatedEntity)
UpdateByFn_Fetch(p) ==
    /\ pc[p] = "ubf_fetch"
    /\ \E dbErr \in DbErrs :
          LET r == First(View(store, txw[p]), call[p].query, dbErr)
          IN /\ entity' = [entity EXCEPT ![p] = r.rec]
             /\ out' = [out EXCEPT ![p] = [err |-> r.err]]
             /\ pc' = [pc EXCEPT ![p] = IF r.err # Nil THEN "ubf_end" ELSE "ubf_compute"]
    /\ call' = [call EXCEPT ![p].query = Q(EmptyMap)]
    /\ conflict' = [conflict EXCEPT ![p] = FALSE]
    /\ hist' = [hist EXCEPT ![p] = Append(@, "Fetch")]
    /\ UNCHANGED <<keys, store, isolation, txw, fnret>>

\* UpdateByFn_Compute with the test of `updated` left out: every nil-error
\* return goes on to Save.
UpdateByFn_Compute_IgnoreUpdated(p) ==
    /\ pc[p] = "ubf_compute"
    /\ \E v \in Vals, updated \in BOOLEAN, err \in {Nil} \cup FnErrs :
          /\ entity' = [entity EXCEPT ![p] =
                IF err # Nil THEN ZeroRecord ELSE [@ EXCEPT !.val = v]]
          /\ fnret' = [fnret EXCEPT ![p] =
                [called |-> TRUE, updated |-> updated, err |-> err,
                 mutated |-> v # entity[p].val]]
          /\ out' = [out EXCEPT ![p] = [err |-> err]]
          /\ pc' = [pc EXCEPT ![p] = IF err # Nil THEN "ubf_end" ELSE "ubf_save"]
    /\ hist' = [hist EXCEPT ![p] = Append(@, "Compute")]
    /\ UNCHANGED <<keys, store, isolation, call, txw, conflict>>

\* UpdateByFn_Compute with `updated` tested before `err`: an updateFn that
\* returns (true, err) goes on to Save.
UpdateByFn_Compute_UpdatedFirst(p) ==
    /\ pc[p] = "ubf_compute"
    /\ \E v \in Vals, updated \in BOOLEAN, err \in {Nil} \cup FnErrs :
          /\ entity' = [entity EXCEPT ![p] =
                IF ~updated THEN ZeroRecord ELSE [@ EXCEPT !.val = v]]
          /\ fnret' = [fnret EXCEPT ![p] =
                [called |-> TRUE, updated |-> updated, err |-> err,
                 mutated |-> v # entity[p].val]]
          /\ out' = [out EXCEPT ![p] = [err |-> err]]
          /\ pc' = [pc EXCEPT ![p] = IF updated THEN "ubf_save" ELSE "ubf_end"]
    /\ hist' = [hist EXCEPT ![p] = Append(@, "Compute")]
    /\ UNCHANGED <<keys, store, isolation, call, txw, conflict>>

\* updated, err := updateFn(updatedEntity): the caller's closure may write
\* any value into the copy and return anything.  On an error or on
\* updated = false the closure returns and the copy goes out of scope.
UpdateByFn_Compute(p) ==
    /\ pc[p] = "ubf_compute"
    /\ \E v \in Vals, updated \in BOOLEAN, err \in {Nil} \cup FnErrs :
          /\ entity' = [entity EXCEPT ![p] =
                IF err # Nil \/ ~updated THEN ZeroRecord ELSE [@ EXCEPT !.val = v]]
          /\ fnret' = [fnret EXCEPT ![p] =
                [called |-> TRUE, updated |-> updated, err |-> err,
                 mutated |-> v # entity[p].val]]
          /\ out' = [out EXCEPT ![p] = [err |-> err]]
          /\ pc' = [pc EXCEPT ![p] =
                IF err # Nil THEN "ubf_end"
                ELSE IF ~updated THEN "ubf_end"
                ELSE "ubf_save"]
    /\ hist' = [hist EXCEPT ![p] = Append(@, "Compute")]
    /\ UNCHANGED <<keys, store, isolation, call, txw, conflict>>

\* UpdateByFn_Save issued on r.DB instead of tx: the write is not part of
\* the transaction and commits at once.
UpdateByFn_Save_OnDB(p) ==
    /\ pc[p] = "ubf_save"
    /\ Unlocked(p, {entity[p].id})
    /\ \E dbErr \in DbErrs :
          /\ store' =
                IF dbErr # Nil THEN store
                ELSE [i \in DOMAIN store \cup {entity[p].id} |->
                        IF i = entity[p].id THEN entity[p].val ELSE store[i]]
          /\ conflict' = MarkConflicts(p, store')
          /\ out' = [out EXCEPT ![p] = [err |-> dbErr]]
    /\ entity' = [entity EXCEPT ![p] = ZeroRecord]
    /\ pc' = [pc EXCEPT ![p] = "ubf_end"]
    /\ hist' = [hist EXCEPT ![p] = Append(@, "Save")]
    /\ UNCHANGED <<keys, isolation, call, txw, fnret>>

\* What the store answers a transaction's write to `row`: under the
\* serializable driver it refuses the write when the row changed after the
\* transaction read it.
WriteErrs(p, row) ==
    IF isolation = "Serializable" /\ conflict[p] /\ row \in FetchedRows(p)
    THEN {ErrConflict}
    ELSE DbErrs

\* tx.WithContext(ctx).Save(updatedEntity): writes every column of the row
\* with the copy's primary key, inside the transaction; then the closure
\* returns.
UpdateByFn_Save(p) ==
    /\ pc[p] = "ubf_save"
    /\ Unlocked(p, {entity[p].id})
    /\ \E dbErr \in WriteErrs(p, entity[p].id) :
          /\ txw' = [txw EXCEPT ![p] =
                IF dbErr # Nil THEN @
                ELSE [i \in DOMAIN @ \cup {entity[p].id} |->
                        IF i = entity[p].id THEN entity[p].val ELSE @[i]]]
          /\ out' = [out EXCEPT ![p] = [err |-> dbErr]]
    /\ entity' = [entity EXCEPT ![p] = ZeroRecord]
    /\ pc' = [pc EXCEPT ![p] = "ubf_end"]
    /\ hist' = [hist EXCEPT ![p] = Append(@, "Save")]
    /\ UNCHANGED <<keys, store, isolation, call, conflict, fnret>>

UpdateByFn_End(p) ==
    /\ pc[p] = "ubf_end"
    /\ EndTransaction(p)

\* crud.Transaction: r.DB.WithContext(ctx).Transaction(func(tx) error {
\* return fn(ctx) })
Transaction_Begin(p) ==
    /\ pc[p] = "idle"
    /\ call' = [call EXCEPT ![p] = [NoCall EXCEPT !.op = "Transaction"]]
    /\ pc' = [pc EXCEPT ![p] = "tx_body"]
    /\ hist' = [hist EXCEPT ![p] = <<"Begin">>]
    /\ UNCHANGED <<keys, store, isolation, entity, txw, conflict, fnret, out>>

\* fn calls r.Create / r.Update / r.Delete with the ctx it was handed.  That
\* ctx is the caller's own and the methods run on r.DB, not on tx: the
\* statement is not part of the transaction and commits at once.
Transaction_Fn(p) ==
    /\ pc[p] = "tx_body"
    /\ Len(hist[p]) <= MaxCalls
    /\ \E r \in {Create(store, rec, Nil) : rec \in Records(keys)}
              \cup {Update(store, query, v, Nil) : query \in TxQueries, v \in Vals}
              \cup {Delete(store, query, <<>>, Nil) : query \in TxQueries} :
          /\ Unlocked(p, r.ids)
          /\ store' = r.st
          /\ conflict' = MarkConflicts(p, r.st)
          /\ hist' = [hist EXCEPT ![p] = Append(@, "Call")]
    /\ UNCHANGED <<keys, isolation, pc, call, entity, txw, fnret, out>>

Transaction_FnReturn(p) ==
    /\ pc[p] = "tx_body"
    /\ \E err \in {Nil} \cup FnErrs :
          /\ fnret' = [fnret EXCEPT ![p] =
                [called |-> TRUE, updated |-> FALSE, err |-> err, mutated |-> FALSE]]
          /\ out' = [out EXCEPT ![p] = [err |-> err]]
    /\ pc' = [pc EXCEPT ![p] = "tx_end"]
    /\ UNCHANGED <<keys, store, isolation, call, entity, txw, conflict, hist>>

Transaction_End(p) ==
    /\ pc[p] = "tx_end"
    /\ EndTransaction(p)

\* The caller takes the result; it may call again.
Return(p) ==
    /\ pc[p] = "done"
    /\ pc' = [pc EXCEPT ![p] = "idle"]
    /\ call' = [call EXCEPT ![p] = NoCall]
    /\ conflict' = [conflict EXCEPT ![p] = FALSE]
    /\ fnret' = [fnret EXCEPT ![p] = NoFnRet]
    /\ hist' = [hist EXCEPT ![p] = <<>>]
    /\ out' = [out EXCEPT ![p] = NoOut]
    /\ UNCHANGED <<keys, store, isolation, entity, txw>>

\* Concurrent callers share the table; nothing else moves.
Shared == UNCHANGED <<snap, uin, uout>>

\* Concurrent writers of one repository over a table of any content: each
\* calls UpdateByFn and the one-statement writers.
Init ==
    /\ keys = 1..MaxSharedId
    /\ store \in AllStores(keys)
    /\ isolation \in Isolations
    /\ IdleProcs
    /\ snap = EmptyMap
    /\ NoUtils

Next ==
    \E p \in Procs :
        \/ CallCreate(p) /\ Shared
        \/ CallUpdate(p) /\ Shared
        \/ CallDelete(p) /\ Shared
        \/ UpdateByFn_Begin(p) /\ Shared
        \/ UpdateByFn_Fetch(p) /\ Shared
        \/ UpdateByFn_Compute(p) /\ Shared
        \/ UpdateByFn_Save(p) /\ Shared
        \/ UpdateByFn_End(p) /\ Shared
        \/ Return(p) /\ Shared

Spec == Init /\ [][Next]_vars

\* One caller alone: snap is the table as its call began.
Caller == "p1"
Alone ==
    /\ snap' = IF pc[Caller] = "idle" THEN store ELSE snap
    /\ UNCHANGED <<uin, uout>>

SeqInit ==
    /\ keys = 1..MaxId
    /\ store \in AllStores(keys)
    /\ isolation \in Isolations
    /\ IdleProcs
    /\ snap = store
    /\ NoUtils

SeqNext ==
    \/ CallCreate(Caller) /\ Alone
    \/ CallUpdate(Caller) /\ Alone
    \/ CallDelete(Caller) /\ Alone
    \/ UpdateByFn_Begin(Caller) /\ Alone
    \/ UpdateByFn_Fetch(Caller) /\ Alone
    \/ UpdateByFn_Compute(Caller) /\ Alone
    \/ UpdateByFn_Save(Caller) /\ Alone
    \/ UpdateByFn_End(Caller) /\ Alone
    \/ Transaction_Begin(Caller) /\ Alone
    \/ Transaction_Fn(Caller) /\ Alone
    \/ Transaction_FnReturn(Caller) /\ Alone
    \/ Transaction_End(Caller) /\ Alone
    \/ Return(Caller) /\ Alone

SeqSpec == SeqInit /\ [][SeqNext]_vars

\* ------------------------------------------------ crud[T]: the readers
\* The predicates and options a reader passes.
ReadQueries ==
    {Q(EmptyMap), Not(Q(EmptyMap), [val |-> 0])} \cup {Q([val |-> v]) : v \in Vals}
OrderOpts == {<<>>, <<OrderBy(<<"val desc">>)>>}
PageOpts ==
    {<<>>} \cup {<<Pagination(n, sz)>> : n \in 0..MaxPage, sz \in 0..MaxSize}

CallGet(p) ==
    /\ pc[p] = "idle"
    /\ \E query \in ReadQueries, order \in OrderOpts, omit \in OmitOpts, dbErr \in DbErrs :
          /\ call' = [call EXCEPT ![p] =
                [op |-> "Get", query |-> query, opts |-> order \o omit, dbErr |-> dbErr]]
          /\ out' = [out EXCEPT ![p] = Get(store, query, order \o omit, dbErr)]
    /\ pc' = [pc EXCEPT ![p] = "done"]
    /\ UNCHANGED <<keys, store, isolation, entity, txw, conflict, fnret, hist>>

\* List's two statements, Count and Find, see the same table: the reader
\* is alone.
CallList(p) ==
    /\ pc[p] = "idle"
    /\ \E query \in ReadQueries, page \in PageOpts, order \in OrderOpts,
          errs \in {<<Nil, Nil>>, <<ErrStore, Nil>>, <<Nil, ErrStore>>} :
          /\ call' = [call EXCEPT ![p] =
                [op |-> "List", query |-> query, opts |-> page \o order,
                 dbErr |-> errs]]
          /\ out' = [out EXCEPT ![p] = List(store, query, page \o order, errs[1], errs[2])]
    /\ pc' = [pc EXCEPT ![p] = "done"]
    /\ UNCHANGED <<keys, store, isolation, entity, txw, conflict, fnret, hist>>

\* One reader over a table of rows 1..n.
QueryInit ==
    /\ keys = 1..MaxRows
    /\ store \in UNION {[1..n -> Vals] : n \in 0..MaxRows}
    /\ isolation = "ReadCommitted"
    /\ IdleProcs
    /\ snap = EmptyMap
    /\ NoUtils

QueryNext ==
    \/ CallGet(Caller) /\ Shared
    \/ CallList(Caller) /\ Shared
    \/ Return(Caller) /\ Shared

QuerySpec == QueryInit /\ [][QueryNext]_vars

\* ------------------------------------------------------ package utils
Elems == 1..MaxElem
Slices == UNION {[1..n -> Elems] : n \in 0..MaxLen}

\* mapset.NewSet(items...): the set of the slice's elements.
RECURSIVE NewSet(_)
NewSet(items) ==
    IF items = <<>> THEN {} ELSE {Head(items)} \cup NewSet(Tail(items))
\* s.Difference(other), s.Intersect(other)
Difference(set, other) == {e \in set : e \notin other}
Intersect(set, other) == {e \in set : e \in other}
\* s.ToSlice(): the elements once each, in the map's iteration order, which
\* is any order.
ToSlice(set) ==
    {sl \in [1..Cardinality(set) -> set] :
        \A i, j \in 1..Cardinality(set) : i # j => sl[i] # sl[j]}

\* SetCmp written as a filter over the slices, without the sets: an element
\* the input repeats is repeated in the output.
SetCmp_NoSets(current, target) ==
    LET In(sl, e) == \E i \in 1..Len(sl) : sl[i] = e
        InCurrent(e) == In(current, e)
        InTarget(e) == In(target, e)
        NotInCurrent(e) == ~In(current, e)
        NotInTarget(e) == ~In(target, e)
    IN {[added |-> SelectSeq(target, NotInCurrent),
         overlapped |-> SelectSeq(current, InTarget),
         deleted |-> SelectSeq(current, NotInTarget)]}

\* SetCmp(current, target): the results it may return, one for each
\* iteration order of the three sets.
SetCmp(current, target) ==
    LET currentSet == NewSet(current)
        targetSet == NewSet(target)
    IN [added : ToSlice(Difference(targetSet, currentSet)),
        overlapped : ToSlice(Intersect(currentSet, targetSet)),
        deleted : ToSlice(Difference(currentSet, targetSet))]

\* The structs the selector helpers are called on, and their selectors: a
\* SelectFn returns (field, add); SelectAll always adds, a conditional one
\* returns the zero value and false for the structs it leaves out.
Zero == 0
Structs == [ID : Elems, Age : {0, 1}]
StructLists == UNION {[1..n -> Structs] : n \in 0..MaxLen}
SelectFns == [field : {"ID", "Age"}, cond : {"all", "idAbove1"}]
SelectAll(f) == [field |-> f, cond |-> "all"]
SelectFn(fn, item) ==
    IF fn.cond = "all" \/ item.ID > 1
    THEN <<item[fn.field], TRUE>>
    ELSE <<Zero, FALSE>>

\* PluckFn: result := make([]FieldT, len(list)); result[i] = field for the
\* items the selector adds, the others keep the zero value.
PluckFn(list, fn) ==
    [i \in 1..Len(list) |->
        LET field == SelectFn(fn, list[i])[1]
            add == SelectFn(fn, list[i])[2]
        IN IF ~add THEN Zero ELSE field]

\* result[key] = value on a Go map; the first-write-wins variant keeps the
\* entry a key already has.
MapPut_KeepFirst(result, key, value) ==
    [k \in DOMAIN result \cup {key} |->
        IF k \in DOMAIN result THEN result[k] ELSE value]
MapPut(result, key, value) ==
    [k \in DOMAIN result \cup {key} |-> IF k = key THEN value ELSE result[k]]

RECURSIVE FieldMapStructLoop(_, _, _)
FieldMapStructLoop(result, list, fn) ==
    IF list = <<>> THEN result
    ELSE LET item == Head(list)
             field == SelectFn(fn, item)[1]
             add == SelectFn(fn, item)[2]
         IN IF ~add
            THEN FieldMapStructLoop(result, Tail(list), fn)
            ELSE FieldMapStructLoop(MapPut(result, field, item), Tail(list), fn)
FieldMapStructFn(list, fn) == FieldMapStructLoop(EmptyMap, list, fn)

RECURSIVE FieldMapFieldLoop(_, _, _, _)
FieldMapFieldLoop(result, slice, keySel, valueSel) ==
    IF slice = <<>> THEN result
    ELSE LET item == Head(slice)
             key == SelectFn(keySel, item)[1]
             addKey == SelectFn(keySel, item)[2]
             value == SelectFn(valueSel, item)[1]
             addValue == SelectFn(valueSel, item)[2]
         IN IF ~addKey
            THEN FieldMapFieldLoop(result, Tail(slice), keySel, valueSel)
            ELSE IF ~addValue
            THEN FieldMapFieldLoop(result, Tail(slice), keySel, valueSel)
            ELSE FieldMapFieldLoop(MapPut(result, key, value), Tail(slice),
                                   keySel, valueSel)
FieldMapFieldFn(slice, keySel, valueSel) ==
    FieldMapFieldLoop(EmptyMap, slice, keySel, valueSel)

\* Uniq that compares an item with the one before it only.
RECURSIVE Uniq_Adjacent(_)
Uniq_Adjacent(list) ==
    IF Len(list) <= 1 THEN list
    ELSE LET rest == Uniq_Adjacent(Tail(list))
         IN IF Head(list) = Head(rest) THEN rest ELSE <<Head(list)>> \o rest

\* Uniq: m is the set of items seen, result the items appended so far.
RECURSIVE UniqLoop(_, _, _)
UniqLoop(m, result, list) ==
    IF list = <<>> THEN result
    ELSE LET item == Head(list)
         IN IF item \notin m
            THEN UniqLoop(m \cup {item}, Append(result, item), Tail(list))
            ELSE UniqLoop(m, result, Tail(list))
Uniq(list) == UniqLoop({}, <<>>, list)

NoArgs == [fn |-> "none"]

\* Uniq called on a list, and again on its own result.
CallUniq ==
    /\ uin.fn = "none"
    /\ \E list \in Slices :
          /\ uin' = [fn |-> "Uniq", list |-> list]
          /\ uout' = [once |-> Uniq(list), twice |-> Uniq(Uniq(list))]
    /\ UNCHANGED <<keys, store, isolation, pc, call, entity, txw, conflict, fnret,
                   hist, out, snap>>

CallFieldMapStructFn ==
    /\ uin.fn = "none"
    /\ \E list \in StructLists, fn \in SelectFns :
          /\ uin' = [fn |-> "FieldMapStructFn", list |-> list, sel |-> fn]
          /\ uout' = FieldMapStructFn(list, fn)
    /\ UNCHANGED <<keys, store, isolation, pc, call, entity, txw, conflict, fnret,
                   hist, out, snap>>

CallFieldMapFieldFn ==
    /\ uin.fn = "none"
    /\ \E slice \in StructLists, keySel \in SelectFns, valueSel \in SelectFns :
          /\ uin' = [fn |-> "FieldMapFieldFn", list |-> slice, sel |-> keySel,
                     valueSel |-> valueSel]
          /\ uout' = FieldMapFieldFn(slice, keySel, valueSel)
    /\ UNCHANGED <<keys, store, isolation, pc, call, entity, txw, conflict, fnret,
                   hist, out, snap>>

CallPluckFn ==
    /\ uin.fn = "none"
    /\ \E list \in StructLists, fn \in SelectFns :
          /\ uin' = [fn |-> "PluckFn", list |-> list, sel |-> fn]
          /\ uout' = PluckFn(list, fn)
    /\ UNCHANGED <<keys, store, isolation, pc, call, entity, txw, conflict, fnret,
                   hist, out, snap>>

CallSetCmp ==
    /\ uin.fn = "none"
    /\ \E current \in Slices, target \in Slices :
          /\ uin' = [fn |-> "SetCmp", current |-> current, target |-> target]
          /\ uout' \in SetCmp(current, target)
    /\ UNCHANGED <<keys, store, isolation, pc, call, entity, txw, conflict, fnret,
                   hist, out, snap>>

UtilReturn ==
    /\ uin.fn # "none"
    /\ uin' = NoArgs
    /\ uout' = <<>>
    /\ UNCHANGED <<keys, store, isolation, pc, call, entity, txw, conflict, fnret,
                   hist, out, snap>>

\* The helpers of package utils, called on slices of bounded length.
UtilInit ==
    /\ keys = {}
    /\ store = EmptyMap
    /\ isolation = "ReadCommitted"
    /\ IdleProcs
    /\ snap = EmptyMap
    /\ NoUtils

UtilNext ==
    \/ CallSetCmp
    \/ CallPluckFn
    \/ CallFieldMapStructFn
    \/ CallFieldMapFieldFn
    \/ CallUniq
    \/ UtilReturn

UtilSpec == UtilInit /\ [][UtilNext]_vars

\* --------------------------------------------- building query options
MaxOpts == 3     \* option functions handed to one BuildOpt call
PaginationArgs == {-1, 0, 1, 2}
OrderLists == {<<>>, <<"val desc">>, <<"id desc", "val">>}
PreloadLists == {<<>>, <<"Orders">>, <<"Profile", "Orders">>}

\* The caller hands BuildOpt one more option function: uin.opts is the
\* sequence, uout.before the configuration BuildOpt gives without the last
\* one, uout.after the configuration it gives for the whole sequence.
Built(opts) ==
    /\ Len(uin.opts) < MaxOpts
    /\ uin' = [fn |-> "BuildOpt", opts |-> opts]
    /\ uout' = [before |-> BuildOpt(SubSeq(opts, 1, Len(opts) - 1)),
                after |-> BuildOpt(opts)]
    /\ UNCHANGED <<keys, store, isolation, pc, call, entity, txw, conflict, fnret,
                   hist, out, snap>>

WithOmitNotFoundErr ==
    \E errFn \in OmitFns : Built(Append(uin.opts, OmitNotFoundErr(errFn)))
WithPagination ==
    \E pageNumber \in PaginationArgs, pageSize \in PaginationArgs :
        Built(Append(uin.opts, Pagination(pageNumber, pageSize)))
WithOrderBy ==
    \E orderBy \in OrderLists : Built(Append(uin.opts, OrderBy(orderBy)))
WithPreload ==
    \E preloads \in PreloadLists : Built(Append(uin.opts, Preload(preloads)))

OptInit ==
    /\ keys = {}
    /\ store = EmptyMap
    /\ isolation = "ReadCommitted"
    /\ IdleProcs
    /\ snap = EmptyMap
    /\ uin = [fn |-> "BuildOpt", opts |-> <<>>]
    /\ uout = [before |-> NewQueryOpt, after |-> BuildOpt(<<>>)]

OptNext ==
    \/ WithOmitNotFoundErr
    \/ WithPagination
    \/ WithOrderBy
    \/ WithPreload

OptSpec == OptInit /\ [][OptNext]_vars

\* ===================================================== the properties
Ended(p, op) == pc[p] = "done" /\ call[p].op = op
InHist(p, stage) == \E i \in 1..Len(hist[p]) : hist[p][i] = stage
Terminal(p) == hist[p][Len(hist[p])]
\* updateFn was invoked in p's call and returned (updated, err).
FnReturned(p, updated, err) ==
    fnret[p].called /\ fnret[p].updated = updated /\ fnret[p].err = err

\* C1 (SeqSpec): when updateFn returns (false, nil), UpdateByFn returns nil,
\* issues no Save, and the table after the call is the table before it,
\* whatever updateFn wrote into its in-memory copy.
C1_NoChangeNoWrite ==
    (Ended(Caller, "UpdateByFn") /\ FnReturned(Caller, FALSE, Nil))
        => /\ out[Caller].err = Nil
           /\ ~InHist(Caller, "Save")
           /\ store = snap

\* updateFn changed its copy of a stored row, returned (false, nil), and
\* the call committed without a write.
C1_Witness ==
    /\ Ended(Caller, "UpdateByFn")
    /\ FnReturned(Caller, FALSE, Nil)
    /\ fnret[Caller].mutated
    /\ Terminal(Caller) = "CommitNoWrite"
    /\ store # EmptyMap

\* C2 (SeqSpec): when updateFn returns a non-nil error e, UpdateByFn returns
\* e itself, the transaction ends in Rollback, no Save is issued and the
\* table is unchanged.
C2_FnErrorVerbatim ==
    (Ended(Caller, "UpdateByFn") /\ fnret[Caller].called /\ fnret[Caller].err # Nil)
        => /\ out[Caller].err = fnret[Caller].err
           /\ Terminal(Caller) = "Rollback"
           /\ ~InHist(Caller, "Save")
           /\ store = snap

\* updateFn changed its copy, returned (true, "ErrBizB"), and the call
\* returned "ErrBizB" after a rollback.
C2_Witness ==
    /\ Ended(Caller, "UpdateByFn")
    /\ FnReturned(Caller, TRUE, "ErrBizB")
    /\ fnret[Caller].mutated
    /\ out[Caller].err = "ErrBizB"
    /\ Terminal(Caller) = "Rollback"

\* C4 (SeqSpec): the repository calls fn makes with the context Transaction
\* hands it are part of the transaction: when fn returns an error the table
\* is the table before the call.
C4_TransactionAtomic ==
    (Ended(Caller, "Transaction") /\ out[Caller].err # Nil) => store = snap

\* C7 (SeqSpec): when the store answers Delete with an error, Delete returns
\* that error unchanged unless suppression was enabled, and then returns
\* the mapping function's result.
C7_StoreErrorReturned ==
    (Ended(Caller, "Delete") /\ call[Caller].dbErr # Nil)
        => LET o == BuildOpt(call[Caller].opts)
           IN out[Caller].err =
                IF o.OmitNotFoundErr
                THEN CallOmitFn(o.OmitNotFoundErrFn, call[Caller].dbErr)
                ELSE call[Caller].dbErr

\* C3 (QuerySpec): Get with no matching record returns gorm's not-found
\* error when no suppression option was passed, and the mapping function
\* applied to it when one was.
C3_GetNotFound ==
    (/\ Ended(Caller, "Get")
     /\ call[Caller].dbErr = Nil
     /\ MatchSet(store, call[Caller].query) = {})
        => LET o == BuildOpt(call[Caller].opts)
           IN out[Caller].err =
                IF o.OmitNotFoundErr
                THEN CallOmitFn(o.OmitNotFoundErrFn, ErrRecordNotFound)
                ELSE ErrRecordNotFound

\* C5 (Spec), as claimed: an UpdateByFn call that saved and returned nil
\* never had another caller's write to its row committed between its fetch
\* and its commit.
C5_NoInterleavedWrite ==
    \A p \in Procs :
        (Ended(p, "UpdateByFn") /\ InHist(p, "Save") /\ out[p].err = Nil)
            => ~conflict[p]

\* C5 (Spec), amended: UpdateByFn fetches and saves inside one transaction
\* of the store and takes no lock of its own, so the guarantee is the
\* store's: under a driver that refuses a transaction's write to a row
\* changed since the transaction read it, a call that saved and returned
\* nil had no other caller's write committed to its row in between.
C5_SerializableNoLostUpdate ==
    \A p \in Procs :
        (/\ isolation = "Serializable"
         /\ Ended(p, "UpdateByFn")
         /\ InHist(p, "Save")
         /\ out[p].err = Nil)
            => ~conflict[p]

\* Under the serializable driver both callers ran UpdateByFn on the same
\* row at once: one committed its write, the other's Save was refused and
\* its transaction rolled back.
C5_Witness ==
    /\ isolation = "Serializable"
    /\ Ended("p1", "UpdateByFn") /\ Ended("p2", "UpdateByFn")
    /\ InHist("p1", "Save") /\ InHist("p2", "Save")
    /\ Terminal("p1") = "CommitWrite" /\ out["p1"].err = Nil
    /\ conflict["p2"] /\ out["p2"].err = ErrConflict
    /\ Terminal("p2") = "Rollback"

\* The least k with k * sz >= n.
Ceil(n, sz) == CHOOSE k \in 0..n : k * sz >= n /\ \A j \in 0..(k - 1) : j * sz < n
PageArgs(opts) == {opts[i] : i \in {j \in 1..Len(opts) : opts[j].kind = "Pagination"}}
OrderedMatches(st, c) == SortRows(MatchSet(st, c.query), BuildOpt(c.opts).OrderBy)

\* C6 (QuerySpec): List with Pagination(n, sz), n >= 1 and sz >= 1, over m
\* matching records returns PageCount = ceil(m / sz) and as Items the
\* records at offsets (n-1)*sz .. min(n*sz, m) - 1 of the ordered matches.
C6_Pagination ==
    (Ended(Caller, "List") /\ out[Caller].err = Nil)
        => \A a \in PageArgs(call[Caller].opts) :
            (a.pageNumber >= 1 /\ a.pageSize >= 1)
                => LET rows == OrderedMatches(store, call[Caller])
                       m == Len(rows)
                       from == (a.pageNumber - 1) * a.pageSize
                       to == Min(a.pageNumber * a.pageSize, m)
                       res == out[Caller].res[1]
                   IN /\ res.PageCount = Ceil(m, a.pageSize)
                      /\ Len(res.Items) = (IF to > from THEN to - from ELSE 0)
                      /\ \A j \in 1..Len(res.Items) : res.Items[j] = rows[from + j]

\* Page 2 of size 2 over 5 matches: the records at offsets 2 and 3, and 3
\* pages.
C6_Witness ==
    /\ Ended(Caller, "List") /\ out[Caller].err = Nil
    /\ Pagination(2, 2) \in PageArgs(call[Caller].opts)
    /\ Len(OrderedMatches(store, call[Caller])) = 5
    /\ out[Caller].res[1].PageCount = 3
    /\ out[Caller].res[1].Items =
            SubSeq(OrderedMatches(store, call[Caller]), 3, 4)

\* C8 (QuerySpec): the Total of List's result is the number of stored
\* records matching the predicate, with and without a pagination option.
C8_TotalIsMatchCount ==
    (Ended(Caller, "List") /\ out[Caller].err = Nil)
        => out[Caller].res[1].Total = Cardinality(MatchSet(store, call[Caller].query))

\* C9 (QuerySpec): Get with an OrderBy option returns the first matching
\* record in the order the option gives.
C9_GetOrdered ==
    (/\ Ended(Caller, "Get")
     /\ call[Caller].dbErr = Nil
     /\ BuildOpt(call[Caller].opts).OrderBy # <<>>
     /\ MatchSet(store, call[Caller].query) # {})
        => /\ out[Caller].err = Nil
           /\ out[Caller].result = <<Head(OrderedMatches(store, call[Caller]))>>

Elements(sl) == {sl[i] : i \in 1..Len(sl)}
NoDuplicate(sl) == \A i, j \in 1..Len(sl) : i # j => sl[i] # sl[j]

\* C10 (UtilSpec): for SetCmp(current, target), as sets, added = target -
\* current, deleted = current - target, overlapped = current /\ target;
\* hence added and deleted are disjoint, added with overlapped is target,
\* deleted with overlapped is current; and no returned slice repeats an
\* element.
C10_SetCmp ==
    uin.fn = "SetCmp"
        => LET C == Elements(uin.current)
               T == Elements(uin.target)
               A == Elements(uout.added)
               O == Elements(uout.overlapped)
               D == Elements(uout.deleted)
           IN /\ A = T \ C /\ D = C \ T /\ O = C \cap T
              /\ A \cap D = {} /\ A \cup O = T /\ D \cup O = C
              /\ NoDuplicate(uout.added)
              /\ NoDuplicate(uout.overlapped)
              /\ NoDuplicate(uout.deleted)

\* Slices that repeat elements, with elements on each side only and in
\* common: SetCmp([1,1,2], [2,3,3]) returned [3], [2], [1].
C10_Witness ==
    /\ uin.fn = "SetCmp"
    /\ uin.current = <<1, 1, 2>> /\ uin.target = <<2, 3, 3>>
    /\ uout = [added |-> <<3>>, overlapped |-> <<2>>, deleted |-> <<1>>]

\* The selector values of the structs the selector includes, in input order.
RECURSIVE Included(_, _)
Included(list, fn) ==
    IF list = <<>> THEN <<>>
    ELSE LET r == SelectFn(fn, Head(list))
         IN (IF r[2] THEN <<r[1]>> ELSE <<>>) \o Included(Tail(list), fn)

\* C11 (UtilSpec): PluckFn(records, selector) is exactly the selector values
\* of the included records, in input order: a record the selector excludes
\* takes no position in the output.
C11_PluckFnCompacts ==
    uin.fn = "PluckFn" => uout = Included(uin.list, uin.sel)

Max(S) == CHOOSE x \in S : \A y \in S : y <= x
\* The input positions that contribute an entry for key k: the key selector
\* includes the record with key k and, for FieldMapFieldFn, the value
\* selector includes it too.
KeyPositions(k) ==
    {i \in 1..Len(uin.list) :
        /\ SelectFn(uin.sel, uin.list[i]) = <<k, TRUE>>
        /\ uin.fn = "FieldMapFieldFn" => SelectFn(uin.valueSel, uin.list[i])[2]}
MapKeys == 0..(MaxElem + MaxVal)

\* C12 (UtilSpec): FieldMapStructFn and FieldMapFieldFn hold an entry for
\* exactly the keys of the included records, and the entry of key k is the
\* record (resp. the value selector's value) at the last included position
\* with key k; an excluded record adds nothing and overwrites nothing.
C12_LastWriteWins ==
    uin.fn \in {"FieldMapStructFn", "FieldMapFieldFn"}
        => /\ DOMAIN uout = {k \in MapKeys : KeyPositions(k) # {}}
           /\ \A k \in DOMAIN uout :
                 LET last == uin.list[Max(KeyPositions(k))]
                 IN uout[k] = IF uin.fn = "FieldMapStructFn" THEN last
                              ELSE SelectFn(uin.valueSel, last)[1]

\* Three records with the same key: the second overwrites the first, the
\* third is excluded by the value selector and leaves the second's value.
C12_Witness ==
    /\ uin.fn = "FieldMapFieldFn"
    /\ uin.sel = SelectAll("Age")
    /\ uin.valueSel = [field |-> "ID", cond |-> "idAbove1"]
    /\ uin.list = <<[ID |-> 2, Age |-> 1], [ID |-> 3, Age |-> 1],
                    [ID |-> 1, Age |-> 1]>>
    /\ DOMAIN uout = {1} /\ uout[1] = 3

\* C13 (UtilSpec): Uniq(Uniq(list)) = Uniq(list), Uniq(list) has the
\* elements of list and holds none of them twice.
C13_Uniq ==
    uin.fn = "Uniq"
        => /\ uout.twice = uout.once
           /\ Elements(uout.once) = Elements(uin.list)
           /\ NoDuplicate(uout.once)

\* A list whose repeated element is not adjacent to its first occurrence.
C13_Witness ==
    /\ uin.fn = "Uniq"
    /\ uin.list = <<2, 1, 2>>
    /\ uout.once = <<2, 1>>

LastOpt == uin.opts[Len(uin.opts)]

\* C14 (OptSpec): whatever option functions BuildOpt folds over the
\* defaults, PageNumber >= 1 and PageSize >= 1 (List never divides by
\* zero), and a Pagination with a non-positive page or size leaves that
\* field as the options before it left it.
C14_PositivePage ==
    /\ uout.after.PageNumber >= 1
    /\ uout.after.PageSize >= 1
    /\ (uin.opts # <<>> /\ LastOpt.kind = "Pagination")
          => /\ LastOpt.pageNumber <= 0
                  => uout.after.PageNumber = uout.before.PageNumber
             /\ LastOpt.pageSize <= 0
                  => uout.after.PageSize = uout.before.PageSize

\* Pagination(2, 2) followed by Pagination(0, -1): page 2 and size 2 stay.
C14_Witness ==
    /\ uin.opts = <<Pagination(2, 2), Pagination(0, -1)>>
    /\ uout.after.Paginate
    /\ uout.after.PageNumber = 2 /\ uout.after.PageSize = 2

\* The arguments of the last option of the given kind, or the default when
\* no such option was applied.
RECURSIVE LastList(_, _, _)
LastList(opts, kind, field) ==
    IF opts = <<>> THEN <<>>
    ELSE IF opts[Len(opts)].kind = kind THEN opts[Len(opts)][field]
    ELSE LastList(SubSeq(opts, 1, Len(opts) - 1), kind, field)

\* C15 (OptSpec): BuildOpt of no options is page 1, size 50, pagination
\* and suppression off; an option applied twice in a row gives what it
\* gives applied once; OrderBy and Preloads are exactly the argument list
\* of the last OrderBy / Preload option, never a concatenation.
C15_FoldIdempotent ==
    /\ uin.opts = <<>>
          => /\ uout.after.PageNumber = 1 /\ uout.after.PageSize = 50
             /\ ~uout.after.Paginate /\ ~uout.after.OmitNotFoundErr
             /\ uout.after.OrderBy = <<>> /\ uout.after.Preloads = <<>>
    /\ (Len(uin.opts) >= 2 /\ LastOpt = uin.opts[Len(uin.opts) - 1])
          => uout.after = uout.before
    /\ uout.after.OrderBy = LastList(uin.opts, "OrderBy", "orderBy")
    /\ uout.after.Preloads = LastList(uin.opts, "Preload", "preloads")

\* OrderBy with one list, then twice with another: the second list alone.
C15_Witness ==
    /\ uin.opts = <<OrderBy(<<"val desc">>), OrderBy(<<"id desc", "val">>),
                    OrderBy(<<"id desc", "val">>)>>
    /\ uout.after.OrderBy = <<"id desc", "val">>
    /\ uout.after = uout.before

\* The stage sequences of a whole UpdateByFn call: one Begin, one Fetch, at
\* most one Compute, the Save on the way from Compute to the end, and one
\* terminal stage.
CallOrders ==
    {<<"Begin", "Fetch", "Rollback">>,
     <<"Begin", "Fetch", "Compute", "Rollback">>,
     <<"Begin", "Fetch", "Compute", "CommitNoWrite">>,
     <<"Begin", "Fetch", "Compute", "Save", "CommitWrite">>,
     <<"Begin", "Fetch", "Compute", "Save", "Rollback">>}
IsPrefix(s, t) == Len(s) <= Len(t) /\ s = SubSeq(t, 1, Len(s))
Terminals == {"CommitNoWrite", "CommitWrite", "Rollback"}

\* C16 (Spec): every UpdateByFn call goes Begin, Fetch, at most one Compute,
\* then exactly one of Commit-No-Write, Commit-Write, Rollback, entered
\* from Fetch or from Compute (through its Save); updateFn is invoked only
\* after a fetch that succeeded, a failed fetch ends in Rollback, and Save
\* is issued only after updateFn returned (true, nil).
C16_CallOrder ==
    \A p \in Procs :
        (pc[p] # "idle" /\ call[p].op = "UpdateByFn")
            => /\ \E order \in CallOrders : IsPrefix(hist[p], order)
               /\ pc[p] = "done" <=> Terminal(p) \in Terminals
               /\ pc[p] = "done" => hist[p] \in CallOrders
               /\ InHist(p, "Compute") <=> fnret[p].called
               /\ pc[p] = "ubf_compute"
                    => out[p].err = Nil /\ hist[p] = <<"Begin", "Fetch">>
               /\ (hist[p] = <<"Begin", "Fetch">> /\ pc[p] = "ubf_end")
                    => out[p].err # Nil
               /\ (pc[p] = "done" /\ ~fnret[p].called)
                    => hist[p] = <<"Begin", "Fetch", "Rollback">>
               /\ InHist(p, "Save") => FnReturned(p, TRUE, Nil)
               /\ Terminal(p) = "CommitWrite"
                    => InHist(p, "Save") /\ out[p].err = Nil
               /\ Terminal(p) = "CommitNoWrite" => FnReturned(p, FALSE, Nil)

\* One call ended in Commit-Write after its Save, the other's fetch found
\* no record and it ended in Rollback without invoking updateFn.
C16_Witness ==
    /\ Ended("p1", "UpdateByFn")
    /\ hist["p1"] = <<"Begin", "Fetch", "Compute", "Save", "CommitWrite">>
    /\ Ended("p2", "UpdateByFn")
    /\ hist["p2"] = <<"Begin", "Fetch", "Rollback">>
    /\ out["p2"].err = ErrRecordNotFound /\ ~fnret["p2"].called

====
